---- MODULE Spec2Model ----
(***************************************************************************)
(* oggify: main() of src/main.rs as a state machine.                       *)
(*                                                                         *)
(* Phase 1 reads reference lines from stdin and expands them into the     *)
(* ordered map `ids`.  Phase 2 walks `ids` in order and, for each item,    *)
(* fetches metadata, negotiates a key, opens and reads the audio stream    *)
(* through a one-worker thread pool, decrypts, and writes a file or pipes  *)
(* the bytes to a helper process.  A panic (unwrap/expect/assert failure)  *)
(* ends the process: pc = "panic".                                         *)
(*                                                                         *)
(* Text is modelled as a sequence of string tokens.  Catalog entities are  *)
(* fixed tables; which tracks are available, the mode and the lines on     *)
(* stdin are chosen in Init; the contents of a container and the failure   *)
(* of an external call are chosen when the call is made.                   *)
(*                                                                         *)
(* Spec is one invocation of main.  SpecFair adds the scheduling of the    *)
(* worker thread and the polling loop.  SpecRerun lets the program be      *)
(* started a second time on the disk the first invocation left.            *)
(***************************************************************************)
EXTENDS Integers, Sequences, FiniteSets, TLC

VARIABLES
    input,            \* stdin: sequence of [ok, text]; ok = FALSE is a read error
    argc,             \* args.len(): 3 (file mode) or 4 (helper mode)
    avail,            \* catalog: the track ids whose metadata has available = true
    disk,             \* filesystem: set of [name, data]
    initDisk,         \* the filesystem as it was when the run started
    pc,               \* position of the main thread in main()
    lineNo,           \* index of the next stdin line
    expanded,         \* history: [line, kind, list] of each reference expanded
    ids,              \* the IndexMap `ids`: sequence of [key, value]
    n,                \* index in `ids` of the item being delivered
    outcomes,         \* history: terminal state of each finished item
    steps,            \* history: external operations performed for item n
    track,            \* `track` / `episode`: metadata in use for item n
    altIdx,           \* position of find_map in track.alternatives
    artists_strs,     \* artist names fetched so far
    show,             \* `show` of the episode branch
    album,            \* `album` of the track helper branch
    file_id,          \* chosen file
    key,              \* audio key
    fname,            \* derived output file name
    buffer,           \* bytes read from the encrypted file
    read_all,         \* result of read_to_end: "ok" | "err" | "unset"
    fetched,          \* the AtomicBool completion flag
    wpc,              \* position of the pool's worker thread
    decrypted_buffer, \* output of AudioDecrypt
    child,            \* the helper process of item n
    helperCalls,      \* history: the helper invocations made
    fatal,            \* why the process panicked ("" while it has not)
    run,              \* which invocation of the program this is: "first" | "second"
    first             \* history: what the first invocation did, once it has ended

vars == <<input, argc, avail, disk, initDisk, pc, lineNo, expanded, ids, n,
          outcomes, steps, track, altIdx, artists_strs, show, album, file_id,
          key, fname, buffer, read_all, fetched, wpc, decrypted_buffer, child,
          helperCalls, fatal, run, first>>

(***************************************************************************)
(* Bounds of the model.                                                    *)
(***************************************************************************)
MaxLines == 2
MaxPayload == 2

(***************************************************************************)
(* Program constants.                                                      *)
(***************************************************************************)
HeaderLen == 167
PoolSize == 1

(***************************************************************************)
(* Small helpers on sequences.                                             *)
(***************************************************************************)
Range(s) == {s[i] : i \in 1..Len(s)}

Reverse(s) == [i \in 1..Len(s) |-> s[Len(s) + 1 - i]]

SeqsUpTo(S, k) == UNION {[1..m -> S] : m \in 0..k}

(***************************************************************************)
(* The catalog (external collaborator): fixed tables over the ids 1..3.    *)
(* A SpotifyId is one id space: the same id can be asked for as a track    *)
(* and as an episode.                                                      *)
(***************************************************************************)
Ids == {1, 2, 3}

Base62Text == <<"id1", "id2", "id3">>

Formats == {320, 160, 96}

NoFile == [kind |-> "none", owner |-> 0, fmt |-> 0]

NoMeta == [id |-> 0, kind |-> "none", name |-> <<>>, available |-> FALSE,
           files |-> {}, artists |-> <<>>, album |-> 0, alternatives |-> <<>>,
           show |-> 0]

NoShow == [id |-> 0, name |-> <<>>, publisher |-> <<>>]

NoAlbum == [id |-> 0, name |-> <<>>]

TrackName == << <<"Song">>, <<"Air">>, <<"Tu", "/", "ne">> >>

TrackFiles == << {160, 96}, {320, 160}, {} >>

TrackArtists == << <<1, 2>>, <<1, 2>>, <<3>> >>

TrackAlbum == <<1, 1, 2>>

TrackAlternatives == << <<3, 2, 2>>, <<>>, <<1>> >>

ArtistName == << <<"Ann">>, <<"Bob">>, <<"Cy">> >>

AlbumName == << <<"LP">>, <<"EP">>, <<"Live">> >>

EpisodeName == << <<"Pilot">>, <<"Two">>, <<"Three">> >>

EpisodeAvailable == {3}

EpisodeFiles == << {320}, {160}, {96} >>

EpisodeShow == <<1, 1, 1>>

ShowName == << <<"Pod">>, <<"Pod2">>, <<"Pod3">> >>

ShowPublisher == << <<"Pub">>, <<"Pub2">>, <<"Pub3">> >>

\* Track::get(id) when it succeeds
TrackMeta(id) ==
    [id |-> id, kind |-> "track", name |-> TrackName[id],
     available |-> id \in avail,
     files |-> TrackFiles[id], artists |-> TrackArtists[id],
     album |-> TrackAlbum[id], alternatives |-> TrackAlternatives[id],
     show |-> 0]

\* Episode::get(id) when it succeeds
EpisodeMeta(id) ==
    [id |-> id, kind |-> "episode", name |-> EpisodeName[id],
     available |-> id \in EpisodeAvailable,
     files |-> EpisodeFiles[id], artists |-> <<>>, album |-> 0,
     alternatives |-> <<>>, show |-> EpisodeShow[id]]

\* Show::get(id) when it succeeds (name and publisher)
ShowMeta(id) == [id |-> id, name |-> ShowName[id], publisher |-> ShowPublisher[id]]

\* Album::get(id) when it succeeds (name)
AlbumMeta(id) == [id |-> id, name |-> AlbumName[id]]

\* The lists a container fetch can return
AlbumLists == {<<1, 2, 1>>}

PlaylistLists == {<<3, 2>>}

ShowLists == {<<1, 2, 1>>, <<3, 2>>}

AvailSets == {{2}, {1, 3}, {1, 2, 3}}

(***************************************************************************)
(* SpotifyId::to_base62 / from_base62 (librespot): a table between ids and *)
(* their text; text that is no id decodes to an error (0).                 *)
(***************************************************************************)
ToBase62(id) == <<Base62Text[id]>>

FromBase62(text) ==
    IF \E i \in Ids : Base62Text[i] = text
    THEN CHOOSE i \in Ids : Base62Text[i] = text
    ELSE 0

(***************************************************************************)
(* Text: a string is a sequence of tokens.                                 *)
(***************************************************************************)
\* str::trim: drop leading and trailing whitespace
RECURSIVE TrimStart(_)
TrimStart(text) ==
    IF text # <<>> /\ Head(text) = " " THEN TrimStart(Tail(text)) ELSE text

Trim(text) == Reverse(TrimStart(Reverse(TrimStart(text))))

\* faulty variant of IsDone: the line is compared without trimming
IsDoneUntrimmed(text) == text = <<"done">>

\* line.trim() == "done"
IsDone(text) == Trim(text) = <<"done">>

LinkKinds == {"playlist", "track", "album", "episode", "show"}

IsAlnum(tok) == tok \notin {" ", "/", ":", ", ", " - ", ".ogg"}

NoCapture == [kind |-> "", id |-> ""]

\* the places where (playlist|track|album|episode|show)[/:]([a-zA-Z0-9]+) matches
MatchAt(text) ==
    {i \in 1..Len(text) :
        /\ i + 2 <= Len(text)
        /\ text[i] \in LinkKinds
        /\ text[i + 1] \in {"/", ":"}
        /\ IsAlnum(text[i + 2])}

\* Regex::captures: groups 1 and 2 of the leftmost match, or none
Captures(text) ==
    IF MatchAt(text) = {} THEN NoCapture
    ELSE LET i == CHOOSE j \in MatchAt(text) : \A k \in MatchAt(text) : j <= k
         IN  [kind |-> text[i], id |-> text[i + 2]]

\* [String]::join
RECURSIVE Join(_, _)
Join(strs, sep) ==
    IF strs = <<>> THEN <<>>
    ELSE IF Len(strs) = 1 THEN strs[1]
    ELSE strs[1] \o <<sep>> \o Join(Tail(strs), sep)

\* format!("{} - {}.ogg", a, b)
FormatName(a, b) == a \o <<" - ">> \o b \o <<".ogg">>

\* sanitize_filename::sanitize: drops the characters a file name cannot hold
RECURSIVE Sanitize(_)
Sanitize(text) ==
    IF text = <<>> THEN <<>>
    ELSE IF Head(text) \in {"/", ":"} THEN Sanitize(Tail(text))
    ELSE <<Head(text)>> \o Sanitize(Tail(text))

(***************************************************************************)
(* IndexMap: a sequence of [key, value] with distinct keys.                *)
(***************************************************************************)
HasKey(m, k) == \E i \in 1..Len(m) : m[i].key = k

\* faulty variant of Insert: a known key is moved to the end
InsertMovesKey(m, k, v) ==
    Append(SelectSeq(m, LAMBDA e : e.key # k), [key |-> k, value |-> v])

\* IndexMap::insert: a new key is appended; a known key keeps its position
\* and takes the new value
Insert(m, k, v) ==
    IF HasKey(m, k)
    THEN [i \in 1..Len(m) |-> IF m[i].key = k THEN [key |-> k, value |-> v] ELSE m[i]]
    ELSE Append(m, [key |-> k, value |-> v])

\* for id in list { m.insert(id, v) }
RECURSIVE InsertAll(_, _, _)
InsertAll(m, list, v) ==
    IF list = <<>> THEN m
    ELSE InsertAll(Insert(m, Head(list), v), Tail(list), v)

\* for (key, value) in other.iter() { m.insert(*key, value) }
RECURSIVE InsertEntries(_, _)
InsertEntries(m, other) ==
    IF other = <<>> THEN m
    ELSE InsertEntries(Insert(m, Head(other).key, Head(other).value), Tail(other))

\* faulty variant of ShowEntries: the reversal is left out
ShowEntriesNotReversed(episodes) == InsertAll(<<>>, episodes, "episode")

\* the "show" arm: a local IndexMap of the returned ids, reversed
ShowEntries(episodes) == Reverse(InsertAll(<<>>, episodes, "episode"))

Entries(list, v) == [i \in 1..Len(list) |-> [key |-> list[i], value |-> v]]

(***************************************************************************)
(* stdin.                                                                  *)
(***************************************************************************)
Lines ==
    { [ok |-> TRUE,  text |-> <<" ", "done", " ">>],
      [ok |-> TRUE,  text |-> <<"done", " ", "track", ":", "id2">>],
      [ok |-> TRUE,  text |-> <<"artist", ":", "id1">>],
      [ok |-> TRUE,  text |-> <<"album", "/", "id1">>],
      [ok |-> TRUE,  text |-> <<"show", ":", "id1">>],
      [ok |-> TRUE,  text |-> <<"playlist", ":", "id3">>],
      [ok |-> TRUE,  text |-> <<" ", "episode", ":", "id1">>],
      [ok |-> TRUE,  text |-> <<"track", ":", "zz">>],
      [ok |-> FALSE, text |-> <<>>] }

Inputs == SeqsUpTo(Lines, MaxLines)

\* the files on disk before the run: one left by an earlier run
OldFiles == { [name |-> <<"Pub", " - ", "Pilot", ".ogg">>, data |-> <<0>>] }

\* faulty variant of Exists: no file is ever found
ExistsNever(name) == FALSE

\* faulty variant of Exists: the directory is looked at as it was at the start
ExistsAtStart(name) == \E e \in initDisk : e.name = name

\* Path::new(&fname).exists()
Exists(name) == \E e \in disk : e.name = name

\* std::fs::write: creates the file, or replaces its contents
FsWrite(name, data) ==
    {e \in disk : e.name # name} \cup {[name |-> name, data |-> data]}

NoChild == [state |-> "none", args |-> <<>>, stdin |-> <<>>, closed |-> FALSE]

NoRun == [expanded |-> <<>>, complete |-> FALSE]

Init ==
    /\ input \in Inputs
    /\ argc \in {3, 4}
    /\ avail \in AvailSets
    /\ disk = OldFiles
    /\ initDisk = disk
    /\ pc = "read"
    /\ lineNo = 1
    /\ expanded = <<>>
    /\ ids = <<>>
    /\ n = 1
    /\ outcomes = <<>>
    /\ steps = <<>>
    /\ track = NoMeta
    /\ altIdx = 0
    /\ artists_strs = <<>>
    /\ show = NoShow
    /\ album = NoAlbum
    /\ file_id = NoFile
    /\ key = 0
    /\ fname = <<>>
    /\ buffer = <<>>
    /\ read_all = "unset"
    /\ fetched = FALSE
    /\ wpc = "idle"
    /\ decrypted_buffer = <<>>
    /\ child = NoChild
    /\ helperCalls = <<>>
    /\ fatal = ""
    /\ run = "first"
    /\ first = NoRun

(***************************************************************************)
(* Phase 1: the stdin loop.                                                *)
(***************************************************************************)
deliveryVars == <<n, outcomes, steps, track, altIdx, artists_strs, show, album,
                  file_id, key, fname, buffer, read_all, fetched, wpc,
                  decrypted_buffer, child, helperCalls>>

envVars == <<input, argc, avail, initDisk, run, first>>

HasLine == pc = "read" /\ lineNo <= Len(input)

Line == input[lineNo]

\* the line reaches the regex: it was read, and is not `done`
Parsed == HasLine /\ Line.ok /\ ~IsDone(Line.text)

Cap == Captures(Trim(Line.text))

\* the line holds a link of this kind whose id decodes
LinkOf(kind) == Parsed /\ Cap # NoCapture /\ Cap.kind = kind /\ FromBase62(Cap.id) # 0

\* faulty variant of Panic: the failure is noted and the loop goes on
PanicGoesOn(reason) == pc' = "next" /\ fatal' = reason

\* a failed unwrap / expect / assert!: the process ends
Panic(reason) == pc' = "panic" /\ fatal' = reason

Record(kind, returned, inserted) ==
    expanded' = Append(expanded, [line |-> lineNo, kind |-> kind,
                                  returned |-> returned, inserted |-> inserted,
                                  before |-> ids])

\* stdin is exhausted
ReadEof ==
    /\ pc = "read" /\ lineNo > Len(input)
    /\ pc' = "next"
    /\ UNCHANGED <<envVars, disk, lineNo, expanded, ids, deliveryVars, fatal>>

\* a `done` line: break
ReadDone ==
    /\ HasLine /\ Line.ok /\ IsDone(Line.text)
    /\ pc' = "next"
    /\ UNCHANGED <<envVars, disk, lineNo, expanded, ids, deliveryVars, fatal>>

\* Err(e) => warn!
ReadError ==
    /\ HasLine /\ ~Line.ok
    /\ lineNo' = lineNo + 1
    /\ UNCHANGED <<envVars, disk, pc, expanded, ids, deliveryVars, fatal>>

\* no match: continue
ReadNoMatch ==
    /\ Parsed /\ Cap = NoCapture
    /\ lineNo' = lineNo + 1
    /\ UNCHANGED <<envVars, disk, pc, expanded, ids, deliveryVars, fatal>>

\* SpotifyId::from_base62(..).unwrap() on text that is no id
ReadBadId ==
    /\ Parsed /\ Cap # NoCapture /\ FromBase62(Cap.id) = 0
    /\ Panic("bad id")
    /\ UNCHANGED <<envVars, disk, lineNo, expanded, ids, deliveryVars>>

ExpandPlaylist ==
    /\ LinkOf("playlist")
    /\ \/ /\ Panic("expand playlist")
          /\ UNCHANGED <<lineNo, expanded, ids>>
       \/ \E tracks \in PlaylistLists :
            /\ ids' = InsertAll(ids, tracks, "track")
            /\ Record("playlist", tracks, Entries(tracks, "track"))
            /\ lineNo' = lineNo + 1
            /\ UNCHANGED <<pc, fatal>>
    /\ UNCHANGED <<envVars, disk, deliveryVars>>

ExpandAlbum ==
    /\ LinkOf("album")
    /\ \/ /\ Panic("expand album")
          /\ UNCHANGED <<lineNo, expanded, ids>>
       \/ \E tracks \in AlbumLists :
            /\ ids' = InsertAll(ids, tracks, "track")
            /\ Record("album", tracks, Entries(tracks, "track"))
            /\ lineNo' = lineNo + 1
            /\ UNCHANGED <<pc, fatal>>
    /\ UNCHANGED <<envVars, disk, deliveryVars>>

ExpandShow ==
    /\ LinkOf("show")
    /\ \/ /\ Panic("expand show")
          /\ UNCHANGED <<lineNo, expanded, ids>>
       \/ \E episodes \in ShowLists :
            /\ ids' = InsertEntries(ids, ShowEntries(episodes))
            /\ Record("show", episodes, ShowEntries(episodes))
            /\ lineNo' = lineNo + 1
            /\ UNCHANGED <<pc, fatal>>
    /\ UNCHANGED <<envVars, disk, deliveryVars>>

ExpandTrack ==
    /\ LinkOf("track")
    /\ ids' = Insert(ids, FromBase62(Cap.id), "track")
    /\ Record("track", <<FromBase62(Cap.id)>>, Entries(<<FromBase62(Cap.id)>>, "track"))
    /\ lineNo' = lineNo + 1
    /\ UNCHANGED <<envVars, disk, pc, deliveryVars, fatal>>

\* faulty variant of ExpandEpisode: the loop over `ids` is entered right after
\* the insertion
ExpandEpisodeDeliversNow ==
    /\ LinkOf("episode")
    /\ ids' = Insert(ids, FromBase62(Cap.id), "episode")
    /\ Record("episode", <<FromBase62(Cap.id)>>, Entries(<<FromBase62(Cap.id)>>, "episode"))
    /\ lineNo' = lineNo + 1
    /\ pc' = "next"
    /\ UNCHANGED <<envVars, disk, deliveryVars, fatal>>

\* the "episode" arm
ExpandEpisode ==
    /\ LinkOf("episode")
    /\ ids' = Insert(ids, FromBase62(Cap.id), "episode")
    /\ Record("episode", <<FromBase62(Cap.id)>>, Entries(<<FromBase62(Cap.id)>>, "episode"))
    /\ lineNo' = lineNo + 1
    /\ UNCHANGED <<envVars, disk, pc, deliveryVars, fatal>>

ReadStep ==
    \/ ReadEof \/ ReadDone \/ ReadError \/ ReadNoMatch \/ ReadBadId
    \/ ExpandPlaylist \/ ExpandAlbum \/ ExpandShow \/ ExpandTrack \/ ExpandEpisode

(***************************************************************************)
(* Audio: the stream behind a file id, the key, the cipher.                *)
(***************************************************************************)
\* files.get(320).or(files.get(160)).or(files.get(96))
BestFormat(files) ==
    IF 320 \in files THEN 320
    ELSE IF 160 \in files THEN 160
    ELSE IF 96 \in files THEN 96
    ELSE 0

StreamLen(file) ==
    CASE file.fmt = 320 -> HeaderLen + MaxPayload
      [] file.fmt = 160 -> HeaderLen + 1
      [] OTHER          -> HeaderLen - 1

KeyOf(id, file) == (id * 17 + file.fmt) % 256

PlainByte(file, i) == (i * 7 + file.owner) % 256

\* what read_to_end puts in `buffer`: the encrypted bytes of the file
Stream(file) ==
    [i \in 1..StreamLen(file) |-> (PlainByte(file, i) + KeyOf(file.owner, file)) % 256]

\* AudioDecrypt::new(key, &buffer[..]).read_to_end(..)
DecryptBytes(k, bytes) == [i \in 1..Len(bytes) |-> (bytes[i] + 256 - k) % 256]

\* faulty variant of StripHeader: the offset is 0xa1
StripHeaderA1(bytes) == SubSeq(bytes, 162, Len(bytes))

\* &decrypted_buffer[0xa7..]
StripHeader(bytes) == SubSeq(bytes, HeaderLen + 1, Len(bytes))

(***************************************************************************)
(* Phase 2: the delivery loop.                                             *)
(***************************************************************************)
readVars == <<lineNo, expanded, ids>>

itemVars == <<track, altIdx, artists_strs, show, album, file_id, key, fname,
              buffer, read_all, fetched, wpc, decrypted_buffer, child>>

\* faulty variant of Item: the map is walked from its end
ItemFromEnd == ids[Len(ids) + 1 - n]

\* for (id, value) in ids: the entry of this iteration
Item == ids[n]

Event(op, id, res) == [item |-> n, op |-> op, id |-> id, res |-> res]

Do(op, id, res) == steps' = Append(steps, Event(op, id, res))

\* the body of the loop is left: its locals are dropped, the next item is due
Finish(result, done, name) ==
    /\ outcomes' = Append(outcomes, [item |-> n, id |-> Item.key, kind |-> Item.value,
                                     result |-> result, steps |-> done,
                                     used |-> track.id, name |-> name,
                                     decrypted |-> decrypted_buffer])
    /\ steps' = <<>>
    /\ n' = n + 1
    /\ pc' = "next"
    /\ track' = NoMeta
    /\ altIdx' = 0
    /\ artists_strs' = <<>>
    /\ show' = NoShow
    /\ album' = NoAlbum
    /\ file_id' = NoFile
    /\ key' = 0
    /\ fname' = <<>>
    /\ buffer' = <<>>
    /\ read_all' = "unset"
    /\ fetched' = FALSE
    /\ wpc' = "idle"
    /\ decrypted_buffer' = <<>>
    /\ child' = NoChild
    /\ UNCHANGED fatal

\* faulty variant of SkipItem: a failed metadata fetch ends the run
SkipItemAborts(done) ==
    /\ Panic("metadata fetch")
    /\ steps' = done
    /\ UNCHANGED <<n, outcomes, track, altIdx, artists_strs, show, album, file_id,
                   key, fname, buffer, read_all, fetched, wpc, decrypted_buffer,
                   child>>

\* if track_result.is_ok() { .. } without an else: the item is skipped
SkipItem(done) == Finish("skipped", done, <<>>)

AfterMeta(t) == IF t.artists = <<>> THEN "format" ELSE "artists"

\* `ids` is exhausted: main returns
EndOfList ==
    /\ pc = "next" /\ n > Len(ids)
    /\ pc' = "done"
    /\ UNCHANGED <<envVars, disk, readVars, deliveryVars, fatal>>

\* Track::get for the item; an error skips the item
TrackGet ==
    /\ pc = "next" /\ n <= Len(ids) /\ Item.value = "track"
    /\ \/ /\ SkipItem(Append(steps, Event("get", Item.key, "err")))
          /\ UNCHANGED helperCalls
       \/ /\ track' = TrackMeta(Item.key)
          /\ Do("get", Item.key, "ok")
          /\ pc' = IF track'.available THEN AfterMeta(track') ELSE "alt"
          /\ altIdx' = 1
          /\ UNCHANGED <<n, outcomes, artists_strs, show, album, file_id, key, fname,
                         buffer, read_all, fetched, wpc, decrypted_buffer, child,
                         helperCalls, fatal>>
    /\ UNCHANGED <<envVars, disk, readVars>>

\* faulty variant of NextAlternative: the list is walked from its end
NextAlternativeFromEnd(t, i) == t.alternatives[Len(t.alternatives) + 1 - i]

\* track.alternatives.iter(): the i-th id visited
NextAlternative(t, i) == t.alternatives[i]

\* faulty variant of TrackAlternative: when no alternative is available the
\* original track is kept
TrackAlternativeKeepsOriginal ==
    /\ pc = "alt"
    /\ \/ /\ altIdx > Len(track.alternatives)
          /\ pc' = AfterMeta(track)
          /\ UNCHANGED <<steps, track, altIdx, fatal>>
       \/ /\ altIdx <= Len(track.alternatives)
          /\ LET alt == NextAlternative(track, altIdx) IN
             \/ /\ Panic("alternative fetch")
                /\ Do("alt", alt, "err")
                /\ UNCHANGED <<track, altIdx>>
             \/ /\ TrackMeta(alt).available
                /\ track' = TrackMeta(alt)
                /\ Do("alt", alt, "available")
                /\ pc' = AfterMeta(track')
                /\ UNCHANGED <<altIdx, fatal>>
             \/ /\ ~TrackMeta(alt).available
                /\ altIdx' = altIdx + 1
                /\ Do("alt", alt, "unavailable")
                /\ UNCHANGED <<pc, track, fatal>>
    /\ UNCHANGED <<envVars, disk, readVars, n, outcomes, artists_strs, show, album,
                   file_id, key, fname, buffer, read_all, fetched, wpc,
                   decrypted_buffer, child, helperCalls>>

\* one step of track.alternatives.iter().find_map(..), then the expect
TrackAlternative ==
    /\ pc = "alt"
    /\ \/ /\ altIdx > Len(track.alternatives)
          /\ Panic("no alternative")
          /\ UNCHANGED <<steps, track, altIdx>>
       \/ /\ altIdx <= Len(track.alternatives)
          /\ LET alt == NextAlternative(track, altIdx) IN
             \/ /\ Panic("alternative fetch")
                /\ Do("alt", alt, "err")
                /\ UNCHANGED <<track, altIdx>>
             \/ /\ TrackMeta(alt).available
                /\ track' = TrackMeta(alt)
                /\ Do("alt", alt, "available")
                /\ pc' = AfterMeta(track')
                /\ UNCHANGED <<altIdx, fatal>>
             \/ /\ ~TrackMeta(alt).available
                /\ altIdx' = altIdx + 1
                /\ Do("alt", alt, "unavailable")
                /\ UNCHANGED <<pc, track, fatal>>
    /\ UNCHANGED <<envVars, disk, readVars, n, outcomes, artists_strs, show, album,
                   file_id, key, fname, buffer, read_all, fetched, wpc,
                   decrypted_buffer, child, helperCalls>>

\* one step of track.artists.iter().map(Artist::get ... .name)
TrackArtist ==
    /\ pc = "artists"
    /\ LET artist == track.artists[Len(artists_strs) + 1] IN
       \/ /\ Panic("artist fetch")
          /\ Do("artist", artist, "err")
          /\ UNCHANGED artists_strs
       \/ /\ artists_strs' = Append(artists_strs, ArtistName[artist])
          /\ Do("artist", artist, "ok")
          /\ pc' = IF Len(artists_strs') = Len(track.artists) THEN "format" ELSE "artists"
          /\ UNCHANGED fatal
    /\ UNCHANGED <<envVars, disk, readVars, n, outcomes, track, altIdx, show, album,
                   file_id, key, fname, buffer, read_all, fetched, wpc,
                   decrypted_buffer, child, helperCalls>>

\* Episode::get for the item; an error skips the item
EpisodeGet ==
    /\ pc = "next" /\ n <= Len(ids) /\ Item.value = "episode"
    /\ \/ /\ SkipItem(Append(steps, Event("get", Item.key, "err")))
          /\ UNCHANGED helperCalls
       \/ /\ track' = EpisodeMeta(Item.key)
          /\ Do("get", Item.key, "ok")
          /\ pc' = "show"
          /\ UNCHANGED <<n, outcomes, altIdx, artists_strs, show, album, file_id, key,
                         fname, buffer, read_all, fetched, wpc, decrypted_buffer,
                         child, helperCalls, fatal>>
    /\ UNCHANGED <<envVars, disk, readVars>>

\* Show::get(episode.show)
EpisodeShowGet ==
    /\ pc = "show"
    /\ \/ /\ Panic("show fetch")
          /\ Do("show", track.show, "err")
          /\ UNCHANGED show
       \/ /\ show' = ShowMeta(track.show)
          /\ Do("show", track.show, "ok")
          /\ pc' = "format"
          /\ UNCHANGED fatal
    /\ UNCHANGED <<envVars, disk, readVars, n, outcomes, track, altIdx, artists_strs,
                   album, file_id, key, fname, buffer, read_all, fetched, wpc,
                   decrypted_buffer, child, helperCalls>>

\* the OGG_VORBIS_320 / 160 / 96 choice
SelectFormat ==
    /\ pc = "format"
    /\ IF BestFormat(track.files) = 0
       THEN /\ Panic("no format")
            /\ UNCHANGED <<file_id, steps>>
       ELSE /\ file_id' = [kind |-> track.kind, owner |-> track.id,
                           fmt |-> BestFormat(track.files)]
            /\ Do("format", track.id, "ok")
            /\ pc' = "key"
            /\ UNCHANGED fatal
    /\ UNCHANGED <<envVars, disk, readVars, n, outcomes, track, altIdx, artists_strs,
                   show, album, key, fname, buffer, read_all, fetched, wpc,
                   decrypted_buffer, child, helperCalls>>

\* session.audio_key().request(track.id, file_id)
RequestKey ==
    /\ pc = "key"
    /\ \/ /\ Panic("audio key")
          /\ Do("key", track.id, "err")
          /\ UNCHANGED key
       \/ /\ key' = KeyOf(track.id, file_id)
          /\ Do("key", track.id, "ok")
          /\ pc' = "open"
          /\ UNCHANGED fatal
    /\ UNCHANGED <<envVars, disk, readVars, n, outcomes, track, altIdx, artists_strs,
                   show, album, file_id, fname, buffer, read_all, fetched, wpc,
                   decrypted_buffer, child, helperCalls>>

\* AudioFile::open(&session, file_id, 320, true)
OpenFile ==
    /\ pc = "open"
    /\ \/ /\ Panic("open")
          /\ Do("open", file_id.owner, "err")
       \/ /\ Do("open", file_id.owner, "ok")
          /\ pc' = "exists"
          /\ UNCHANGED fatal
    /\ UNCHANGED <<envVars, disk, readVars, n, outcomes, track, altIdx, artists_strs,
                   show, album, file_id, key, fname, buffer, read_all, fetched, wpc,
                   decrypted_buffer, child, helperCalls>>

\* the output name of the item
TrackFname == Sanitize(FormatName(Join(artists_strs, ", "), track.name))

EpisodeFname == FormatName(show.publisher, track.name)

\* faulty variant of ExistsCheck: the read is started whether or not the file exists
ExistsCheckIgnored(name) ==
    /\ fname' = name
    /\ Do("exists", track.id, IF Exists(name) THEN "yes" ELSE "no")
    /\ fetched' = FALSE
    /\ wpc' = "queued"
    /\ pc' = "poll"
    /\ UNCHANGED <<n, outcomes, track, altIdx, artists_strs, show, album,
                   file_id, key, buffer, read_all, decrypted_buffer, child,
                   fatal>>
    /\ UNCHANGED <<envVars, disk, readVars, helperCalls>>

\* faulty variant of ExistsCheck: a file that exists ends the run
ExistsCheckFatal(name) ==
    /\ IF Exists(name)
       THEN /\ Panic("exists")
            /\ Do("exists", track.id, "yes")
            /\ UNCHANGED <<n, outcomes, track, altIdx, artists_strs, show, album,
                           file_id, key, fname, buffer, read_all, fetched, wpc,
                           decrypted_buffer, child>>
       ELSE /\ fname' = name
            /\ Do("exists", track.id, "no")
            /\ fetched' = FALSE
            /\ wpc' = "queued"
            /\ pc' = "poll"
            /\ UNCHANGED <<n, outcomes, track, altIdx, artists_strs, show, album,
                           file_id, key, buffer, read_all, decrypted_buffer, child,
                           fatal>>
    /\ UNCHANGED <<envVars, disk, readVars, helperCalls>>

\* Path::new(&fname).exists(): skip, or hand the read to the pool
ExistsCheck(name) ==
    /\ IF Exists(name)
       THEN /\ Finish("exists", Append(steps, Event("exists", track.id, "yes")), name)
       ELSE /\ fname' = name
            /\ Do("exists", track.id, "no")
            /\ fetched' = FALSE
            /\ wpc' = "queued"
            /\ pc' = "poll"
            /\ UNCHANGED <<n, outcomes, track, altIdx, artists_strs, show, album,
                           file_id, key, buffer, read_all, decrypted_buffer, child,
                           fatal>>
    /\ UNCHANGED <<envVars, disk, readVars, helperCalls>>

TrackExists == pc = "exists" /\ track.kind = "track" /\ ExistsCheck(TrackFname)

EpisodeExists == pc = "exists" /\ track.kind = "episode" /\ ExistsCheck(EpisodeFname)

(***************************************************************************)
(* The bridge: threadpool.scoped with one job, polled by the main thread.  *)
(***************************************************************************)
\* the job: read_all = encrypted_file.read_to_end(&mut buffer)
WorkerRead ==
    /\ wpc = "queued"
    /\ \/ /\ buffer' = Stream(file_id)
          /\ read_all' = "ok"
          /\ Do("read", file_id.owner, "ok")
       \/ /\ buffer' = <<>>
          /\ read_all' = "err"
          /\ Do("read", file_id.owner, "err")
    /\ wpc' = "read"
    /\ UNCHANGED <<envVars, disk, pc, readVars, n, outcomes, track, altIdx,
                   artists_strs, show, album, file_id, key, fname, fetched,
                   decrypted_buffer, child, helperCalls, fatal>>

\* faulty variant of WorkerStore: the job ends without setting the flag
WorkerStoreForgotten ==
    /\ wpc = "read"
    /\ wpc' = "idle"
    /\ UNCHANGED <<envVars, disk, pc, readVars, n, outcomes, steps, track, altIdx,
                   artists_strs, show, album, file_id, key, fname, buffer, read_all,
                   fetched, decrypted_buffer, child, helperCalls, fatal>>

\* the job: fetched.store(true, Ordering::Release); the job ends
WorkerStore ==
    /\ wpc = "read"
    /\ fetched' = TRUE
    /\ wpc' = "idle"
    /\ UNCHANGED <<envVars, disk, pc, readVars, n, outcomes, steps, track, altIdx,
                   artists_strs, show, album, file_id, key, fname, buffer, read_all,
                   decrypted_buffer, child, helperCalls, fatal>>

\* faulty variant of PollCheck: the loop is left without looking at the flag
PollCheckNoWait ==
    /\ pc = "poll"
    /\ pc' = "expect"
    /\ UNCHANGED <<envVars, disk, readVars, deliveryVars, fatal>>

\* while !fetched.load(Ordering::Acquire): the test; the scope ends when it fails
PollCheck ==
    /\ pc = "poll"
    /\ pc' = IF fetched THEN "expect" ELSE "turn"
    /\ UNCHANGED <<envVars, disk, readVars, deliveryVars, fatal>>

\* core.turn(Some(Duration::from_millis(100)))
PollTurn ==
    /\ pc = "turn"
    /\ pc' = "poll"
    /\ UNCHANGED <<envVars, disk, readVars, deliveryVars, fatal>>

\* read_all.expect("Cannot read file stream")
ExpectRead ==
    /\ pc = "expect"
    /\ IF read_all = "ok"
       THEN pc' = "decrypt" /\ UNCHANGED fatal
       ELSE Panic("read")
    /\ UNCHANGED <<envVars, disk, readVars, deliveryVars>>

\* AudioDecrypt::new(key, &buffer[..]).read_to_end(&mut decrypted_buffer)
Decrypt ==
    /\ pc = "decrypt"
    /\ \/ /\ Panic("decrypt")
          /\ Do("decrypt", file_id.owner, "err")
          /\ UNCHANGED decrypted_buffer
       \/ /\ decrypted_buffer' = DecryptBytes(key, buffer)
          /\ Do("decrypt", file_id.owner, "ok")
          /\ pc' = IF argc = 3 THEN "write"
                   ELSE IF track.kind = "track" THEN "album" ELSE "spawn"
          /\ UNCHANGED fatal
    /\ UNCHANGED <<envVars, disk, readVars, n, outcomes, track, altIdx, artists_strs,
                   show, album, file_id, key, fname, buffer, read_all, fetched, wpc,
                   child, helperCalls>>

(***************************************************************************)
(* Delivery.                                                               *)
(***************************************************************************)
\* file mode: the second exists() and std::fs::write(&fname, &decrypted_buffer[0xa7..])
WriteFile(name) ==
    /\ pc = "write"
    /\ IF Exists(name)
       THEN /\ Finish("exists at write", Append(steps, Event("recheck", track.id, "yes")), name)
            /\ UNCHANGED disk
       ELSE IF Len(decrypted_buffer) < HeaderLen
       THEN /\ Panic("slice")
            /\ Do("recheck", track.id, "no")
            /\ UNCHANGED <<disk, n, outcomes, itemVars>>
       ELSE \/ /\ Panic("write")
               /\ steps' = steps \o <<Event("recheck", track.id, "no"),
                                       Event("write", track.id, "err")>>
               /\ UNCHANGED <<disk, n, outcomes, itemVars>>
            \/ /\ disk' = FsWrite(name, StripHeader(decrypted_buffer))
               /\ Finish("delivered",
                         steps \o <<Event("recheck", track.id, "no"),
                                    Event("write", track.id, "ok")>>, name)
    /\ UNCHANGED <<envVars, readVars, helperCalls>>

TrackWrite == track.kind = "track" /\ WriteFile(TrackFname)

EpisodeWrite == track.kind = "episode" /\ WriteFile(fname)

\* helper mode, track: Album::get(track.album)
TrackAlbumGet ==
    /\ pc = "album"
    /\ \/ /\ Panic("album fetch")
          /\ Do("album", track.album, "err")
          /\ UNCHANGED album
       \/ /\ album' = AlbumMeta(track.album)
          /\ Do("album", track.album, "ok")
          /\ pc' = "spawn"
          /\ UNCHANGED fatal
    /\ UNCHANGED <<envVars, disk, readVars, n, outcomes, track, altIdx, artists_strs,
                   show, file_id, key, fname, buffer, read_all, fetched, wpc,
                   decrypted_buffer, child, helperCalls>>

\* cmd.arg(id.to_base62()).arg(track.name).arg(album.name).args(artists_strs.iter())
TrackArgs == <<ToBase62(Item.key), track.name, album.name>> \o artists_strs

\* faulty variant of EpisodeArgs: publisher and show name change places
EpisodeArgsSwapped == <<ToBase62(Item.key), track.name, show.publisher, show.name>>

\* cmd.arg(id.to_base62()).arg(episode.name).arg(show.name).arg(show.publisher)
EpisodeArgs == <<ToBase62(Item.key), track.name, show.name, show.publisher>>

\* cmd.spawn().expect("Could not run helper program")
Spawn(args) ==
    /\ pc = "spawn"
    /\ \/ /\ Panic("spawn")
          /\ Do("spawn", Item.key, "err")
          /\ UNCHANGED child
       \/ /\ child' = [state |-> "running", args |-> args, stdin |-> <<>>,
                       closed |-> FALSE]
          /\ Do("spawn", Item.key, "ok")
          /\ pc' = "pipe"
          /\ UNCHANGED fatal
    /\ UNCHANGED <<envVars, disk, readVars, n, outcomes, track, altIdx, artists_strs,
                   show, album, file_id, key, fname, buffer, read_all, fetched, wpc,
                   decrypted_buffer, helperCalls>>

TrackSpawn == track.kind = "track" /\ Spawn(TrackArgs)

EpisodeSpawn == track.kind = "episode" /\ Spawn(EpisodeArgs)

\* pipe.write_all(&decrypted_buffer[0xa7..]).expect("Failed to write to stdin")
PipeWrite ==
    /\ pc = "pipe"
    /\ IF Len(decrypted_buffer) < HeaderLen
       THEN /\ Panic("slice")
            /\ UNCHANGED <<steps, child>>
       ELSE \/ /\ Panic("pipe write")
               /\ Do("pipe", Item.key, "err")
               /\ UNCHANGED child
            \/ /\ child' = [child EXCEPT !.stdin = StripHeader(decrypted_buffer)]
               /\ Do("pipe", Item.key, "ok")
               /\ pc' = "wait"
               /\ UNCHANGED fatal
    /\ UNCHANGED <<envVars, disk, readVars, n, outcomes, track, altIdx, artists_strs,
                   show, album, file_id, key, fname, buffer, read_all, fetched, wpc,
                   decrypted_buffer, helperCalls>>

Call(status) == [item |-> n, kind |-> track.kind, used |-> track.id,
                 args |-> child.args, stdin |-> child.stdin, status |-> status]

\* faulty variant of Success: the exit status is not looked at
SuccessAlways(status) == TRUE

\* ExitStatus::success
Success(status) == status = 0

\* assert!(child.wait().expect(..).success()): wait() closes the child's stdin,
\* then waits for it to exit
Wait ==
    /\ pc = "wait"
    /\ \/ /\ Panic("wait")
          /\ steps' = steps \o <<Event("close", Item.key, "ok"), Event("wait", Item.key, "err")>>
          /\ child' = [child EXCEPT !.closed = TRUE]
          /\ UNCHANGED <<helperCalls, n, outcomes, track, altIdx, artists_strs, show,
                         album, file_id, key, fname, buffer, read_all, fetched, wpc,
                         decrypted_buffer>>
       \/ \E status \in {0, 1} :
            /\ helperCalls' = Append(helperCalls, Call(status))
            /\ IF Success(status)
               THEN Finish("delivered",
                           steps \o <<Event("close", Item.key, "ok"),
                                      Event("wait", Item.key, "zero")>>, fname)
               ELSE /\ Panic("helper status")
                    /\ steps' = steps \o <<Event("close", Item.key, "ok"),
                                           Event("wait", Item.key, "nonzero")>>
                    /\ child' = [child EXCEPT !.closed = TRUE, !.state = "exited"]
                    /\ UNCHANGED <<n, outcomes, track, altIdx, artists_strs, show,
                                   album, file_id, key, fname, buffer, read_all,
                                   fetched, wpc, decrypted_buffer>>
    /\ UNCHANGED <<envVars, disk, readVars>>

DeliverStep ==
    \/ EndOfList
    \/ TrackGet \/ TrackAlternative \/ TrackArtist
    \/ EpisodeGet \/ EpisodeShowGet
    \/ SelectFormat \/ RequestKey \/ OpenFile
    \/ TrackExists \/ EpisodeExists
    \/ WorkerRead \/ WorkerStore \/ PollCheck \/ PollTurn
    \/ ExpectRead \/ Decrypt
    \/ TrackWrite \/ EpisodeWrite
    \/ TrackAlbumGet \/ TrackSpawn \/ EpisodeSpawn \/ PipeWrite \/ Wait

Next == ReadStep \/ DeliverStep

Spec == Init /\ [][Next]_vars

(***************************************************************************)
(* Scheduling.  The worker is a thread of its own and the main thread is   *)
(* never blocked in the polling loop (core.turn returns after 100 ms at    *)
(* the latest): a step of the bridge that stays possible is taken.  The    *)
(* blocking read itself is given no fairness: it may never return.         *)
(***************************************************************************)
Fairness ==
    /\ WF_vars(WorkerStore)
    /\ WF_vars(PollCheck)
    /\ WF_vars(PollTurn)
    /\ WF_vars(ExpectRead)

SpecFair == Init /\ [][Next]_vars /\ Fairness

(***************************************************************************)
(* A second invocation: once main has returned, the program is started     *)
(* again with the same arguments and the same stdin.  Everything in main   *)
(* starts afresh; the filesystem is what the first invocation left.        *)
(***************************************************************************)
Rerun ==
    /\ pc = "done" /\ run = "first"
    /\ run' = "second"
    /\ first' = [expanded |-> expanded,
                 complete |-> \A i \in 1..Len(outcomes) :
                                 outcomes[i].result = "delivered"]
    /\ initDisk' = disk
    /\ pc' = "read"
    /\ lineNo' = 1
    /\ expanded' = <<>>
    /\ ids' = <<>>
    /\ n' = 1
    /\ outcomes' = <<>>
    /\ steps' = <<>>
    /\ track' = NoMeta
    /\ altIdx' = 0
    /\ artists_strs' = <<>>
    /\ show' = NoShow
    /\ album' = NoAlbum
    /\ file_id' = NoFile
    /\ key' = 0
    /\ fname' = <<>>
    /\ buffer' = <<>>
    /\ read_all' = "unset"
    /\ fetched' = FALSE
    /\ wpc' = "idle"
    /\ decrypted_buffer' = <<>>
    /\ child' = NoChild
    /\ helperCalls' = <<>>
    /\ fatal' = ""
    /\ UNCHANGED <<input, argc, avail, disk>>

NextRerun == Next \/ Rerun

SpecRerun == Init /\ [][NextRerun]_vars

(***************************************************************************)
(* Properties.  Histories: `expanded` (one record per expanded reference), *)
(* `outcomes` (one record per finished item, with the operations performed *)
(* for it), `steps` (the operations performed for the item in progress),   *)
(* `helperCalls` (one record per helper that exited).                      *)
(***************************************************************************)
Keys(m) == [i \in 1..Len(m) |-> m[i].key]

\* s without the later occurrences of each element
RECURSIVE FirstOccurrences(_)
FirstOccurrences(s) ==
    IF s = <<>> THEN <<>>
    ELSE LET r == FirstOccurrences(SubSeq(s, 1, Len(s) - 1))
         IN  IF s[Len(s)] \in Range(r) THEN r ELSE Append(r, s[Len(s)])

\* every [key, value] handed to ids.insert by the first k expanded references
RECURSIVE AllInserted(_)
AllInserted(k) ==
    IF k = 0 THEN <<>> ELSE AllInserted(k - 1) \o expanded[k].inserted

LastValue(s, k) ==
    LET last == CHOOSE i \in 1..Len(s) :
                    s[i].key = k /\ \A j \in (i + 1)..Len(s) : s[j].key # k
    IN  s[last].value

ValueIn(m, k) == (CHOOSE e \in Range(m) : e.key = k).value

\* the WorkList m after the ids of `list` are inserted one by one as kind v
\* under the first-seen-position rule
FirstSeen(m, list, v) ==
    LET keys == FirstOccurrences(Keys(m) \o list)
    IN  [i \in 1..Len(keys) |->
            [key |-> keys[i],
             value |-> IF keys[i] \in Range(list) THEN v ELSE ValueIn(m, keys[i])]]

\* the WorkList right after the k-th expanded reference
After(k) == IF k < Len(expanded) THEN expanded[k + 1].before ELSE ids

\* the steps of every item: the finished ones and the one in progress
Histories ==
    {[id |-> o.id, kind |-> o.kind, steps |-> o.steps, finished |-> TRUE,
      result |-> o.result] : o \in Range(outcomes)}
    \cup (IF pc \notin {"read", "next", "done"} /\ n <= Len(ids)
             /\ (pc # "panic" \/ steps # <<>> \/ track # NoMeta)
          THEN {[id |-> ids[n].key, kind |-> ids[n].value, steps |-> steps,
                 finished |-> FALSE, result |-> pc]}
          ELSE {})

Ops(h) == {h[i].op : i \in 1..Len(h)}

OfOp(h, op) == SelectSeq(h, LAMBDA e : e.op = op)

\* C1: the WorkList holds each leaf id once, in the order of the ids' first
\* insertion; an id inserted again takes the new kind and keeps its position,
\* and no other id moves.
C1_FirstSeenOrder ==
    LET ins == AllInserted(Len(expanded)) IN
    /\ Cardinality(Range(Keys(ids))) = Len(ids)
    /\ Keys(ids) = FirstOccurrences(Keys(ins))
    /\ \A i \in 1..Len(ids) : ids[i].value = LastValue(ins, ids[i].key)
    /\ \A k \in 1..Len(expanded) :
          /\ Keys(expanded[k].before)
                = SubSeq(Keys(After(k)), 1, Len(expanded[k].before))
          /\ expanded[k].kind \in {"album", "playlist"}
                => After(k) = FirstSeen(expanded[k].before, expanded[k].returned, "track")

\* an album returning [1, 2, 1] gave [1, 2]; episode 1, inserted afterwards,
\* changed the kind of id 1 and not its place
C1_Witness ==
    /\ Len(expanded) = 2
    /\ expanded[1].kind = "album" /\ expanded[1].returned = <<1, 2, 1>>
    /\ expanded[2].before = <<[key |-> 1, value |-> "track"], [key |-> 2, value |-> "track"]>>
    /\ expanded[2].kind = "episode"
    /\ ids = <<[key |-> 1, value |-> "episode"], [key |-> 2, value |-> "track"]>>

C3_FirstAvailableAlternative ==
    /\ \A h \in Histories :
          h.kind = "track" =>
             LET alts == TrackAlternatives[h.id]
                 f    == OfOp(h.steps, "alt")
             IN  /\ Len(f) <= Len(alts)
                 /\ \A i \in 1..Len(f) :
                       /\ f[i].id = alts[i]
                       /\ i < Len(f) => f[i].res = "unavailable"
                       /\ f[i].res = "available" => alts[i] \in avail
                       /\ f[i].res = "unavailable" => alts[i] \notin avail
                 /\ f # <<>> => h.id \notin avail
                 /\ \A i \in 1..Len(f) :
                       f[i].res = "available" =>
                          /\ \A j \in 1..(i - 1) : alts[j] \notin avail
                          /\ \A e \in Range(h.steps) :
                                e.op \in {"format", "key"} => e.id = alts[i]
                 /\ (h.id \notin avail /\ "format" \in Ops(h.steps))
                       => \E i \in 1..Len(f) : f[i].res = "available"
    /\ fatal = "no alternative" =>
          /\ \A i \in 1..Len(TrackAlternatives[ids[n].key]) :
                TrackAlternatives[ids[n].key][i] \notin avail
          /\ Len(OfOp(steps, "alt")) = Len(TrackAlternatives[ids[n].key])
    /\ pc \in {"artists", "format", "key"} /\ OfOp(steps, "alt") # <<>>
          => track.id = OfOp(steps, "alt")[Len(OfOp(steps, "alt"))].id

\* track 1 is unavailable with alternatives [3, 2, 2]: 3 was fetched and found
\* unavailable, 2 was selected, the third was not fetched, and the item was
\* delivered
C3_Witness ==
    \E o \in Range(outcomes) :
        /\ o.kind = "track" /\ o.id = 1 /\ o.result = "delivered" /\ o.used = 2
        /\ Len(OfOp(o.steps, "alt")) = 2

\* what reached the outside for a delivered item: the file written, or the
\* bytes piped to the helper
FileData(name) == (CHOOSE e \in disk : e.name = name).data

DeliveredBytes(o) ==
    IF argc = 3 THEN FileData(o.name)
    ELSE (CHOOSE c \in Range(helperCalls) : c.item = o.item).stdin

Drop(bytes, k) == [i \in 1..(Len(bytes) - k) |-> bytes[i + k]]

DeliveredIsDecryptedFrom(k) ==
    /\ \A o \in Range(outcomes) :
          o.result = "delivered" =>
             /\ Len(o.decrypted) >= k
             /\ DeliveredBytes(o) = Drop(o.decrypted, k)
    /\ pc = "wait" => child.stdin = Drop(decrypted_buffer, k)
    /\ \A c \in Range(helperCalls) :
          (c.item = n /\ pc = "panic") => c.stdin = Drop(decrypted_buffer, k)

C5_ReverseThenInsert ==
    \A k \in 1..Len(expanded) :
        expanded[k].kind = "show" =>
           After(k) = FirstSeen(expanded[k].before, Reverse(expanded[k].returned), "episode")

\* C5 amended: the returned list first loses the later occurrences of each
\* repeated id, is then reversed once, and its ids are inserted one by one; for
\* a list without repeated ids this is the reverse of the returned list.
C5_DedupThenReverse ==
    \A k \in 1..Len(expanded) :
        expanded[k].kind = "show" =>
           LET r == expanded[k] IN
           /\ After(k) = FirstSeen(r.before, Reverse(FirstOccurrences(r.returned)), "episode")
           /\ Keys(r.inserted) = Reverse(FirstOccurrences(r.returned))
           /\ Cardinality(Range(r.returned)) = Len(r.returned)
                 => After(k) = FirstSeen(r.before, Reverse(r.returned), "episode")

\* a show returning [1, 2, 1] on an empty WorkList gave [2, 1]
C5_Witness ==
    /\ Len(expanded) = 1
    /\ expanded[1].kind = "show" /\ expanded[1].returned = <<1, 2, 1>>
    /\ Keys(ids) = <<2, 1>>

Failed(e) == e.res \in {"err", "nonzero"}

\* the process has ended by a panic: nothing more happens
Aborted == pc = "panic" /\ fatal # "" /\ ~ENABLED Next

ExpectedArgs(kind, id, used) ==
    IF kind = "track"
    THEN << <<Base62Text[id]>>, TrackName[used], AlbumName[TrackAlbum[used]] >>
            \o [i \in 1..Len(TrackArtists[used]) |-> ArtistName[TrackArtists[used][i]]]
    ELSE << <<Base62Text[id]>>, EpisodeName[used], ShowName[EpisodeShow[used]],
            ShowPublisher[EpisodeShow[used]] >>

\* C7: the helper gets (id as text, title, group name, origin names...): for an
\* episode (episode id, episode name, show name, show publisher), for a track
\* (track id, track name, album name, artist names in artist-list order).  The
\* id is the WorkItem's; the names are those of the metadata in use.
C7_HelperArguments ==
    /\ \A i \in 1..Len(helperCalls) :
          LET c == helperCalls[i] IN
          /\ c.item <= Len(ids)
          /\ c.args = ExpectedArgs(ids[c.item].value, ids[c.item].key, c.used)
    /\ pc \in {"pipe", "wait"} => child.args = ExpectedArgs(ids[n].value, ids[n].key, track.id)
    /\ argc = 3 => helperCalls = <<>> /\ child = NoChild
    /\ argc = 4 => disk = initDisk

\* episode 2 of show 1 ("Pod", "Pub") and a track with two artists were both
\* handed to the helper
C7_Witness ==
    /\ \E c \in Range(helperCalls) :
          c.args = << <<"id2">>, <<"Two">>, <<"Pod">>, <<"Pub">> >> /\ c.status = 0
    /\ \E c \in Range(helperCalls) :
          c.args = << <<"id1">>, <<"Song">>, <<"LP">>, <<"Ann">>, <<"Bob">> >> /\ c.status = 0

HelperOrder == <<"spawn", "pipe", "close", "wait">>

HelperSteps(h) == SelectSeq(h, LAMBDA e : e.op \in Range(HelperOrder))

\* C8: helper delivery goes spawn, write of all the stripped bytes, close of the
\* child's input, wait; a failed spawn, a failed write or a non-zero exit status
\* ends the run, and no later item is processed.
C8_HelperProtocol ==
    /\ \A h \in Histories :
          LET f == HelperSteps(h.steps) IN
          /\ Len(f) <= 4
          /\ \A i \in 1..Len(f) : f[i].op = HelperOrder[i]
          /\ \A i \in 1..Len(f) : Failed(f[i]) => (~h.finished /\ i = Len(f) /\ Aborted)
          /\ (h.finished /\ f # <<>>) => (Len(f) = 4 /\ h.result = "delivered")
          /\ (h.finished /\ h.result = "delivered" /\ argc = 4) => Len(f) = 4
    /\ \A i \in 1..Len(helperCalls) :
          helperCalls[i].status # 0 =>
             (Aborted /\ helperCalls[i].item = n /\ i = Len(helperCalls))
    /\ pc = "pipe" => (child.state = "running" /\ child.stdin = <<>> /\ ~child.closed)
    /\ pc = "wait" =>
          /\ child.state = "running" /\ ~child.closed
          /\ child.stdin = Drop(decrypted_buffer, HeaderLen)
    /\ child.closed => \E e \in Range(steps) : e.op = "pipe" /\ e.res = "ok"
    /\ Aborted => Len(outcomes) = n - 1

\* the helper exited non-zero for the first item: the run ended with a second
\* item still in the WorkList
C8_Witness ==
    /\ pc = "panic" /\ fatal = "helper status"
    /\ n = 1 /\ Len(ids) >= 2
    /\ Len(HelperSteps(steps)) = 4

\* C9: items are delivered in WorkList order, one after the other: every step
\* belongs to the item the loop is at, the items before it are finished, and
\* the worker reads only while the main thread is polling for that item.
C9_Sequential ==
    /\ Len(outcomes) = n - 1
    /\ n <= Len(ids) + 1
    /\ pc = "read" => (n = 1 /\ steps = <<>>)
    /\ \A i \in 1..Len(outcomes) :
          /\ outcomes[i].item = i
          /\ outcomes[i].id = ids[i].key
          /\ outcomes[i].kind = ids[i].value
          /\ outcomes[i].steps # <<>>
          /\ \A e \in Range(outcomes[i].steps) : e.item = i
          /\ outcomes[i].steps[1].op = "get" /\ outcomes[i].steps[1].id = ids[i].key
    /\ \A e \in Range(steps) : e.item = n /\ n <= Len(ids)
    /\ steps # <<>> => (steps[1].op = "get" /\ steps[1].id = ids[n].key)
    /\ wpc # "idle" => pc \in {"poll", "turn"}
    /\ \A h \in Histories : Len(OfOp(h.steps, "read")) <= PoolSize
    /\ pc = "done" => n = Len(ids) + 1

\* two or more items were delivered one after the other and main returned
C9_Witness ==
    /\ pc = "done"
    /\ Len(outcomes) >= 2
    /\ \A i \in 1..Len(outcomes) : outcomes[i].result = "delivered"

\* the line is `done` between any amount of whitespace
DoneLine(l) ==
    /\ l.ok
    /\ \E i \in 1..Len(l.text) :
          l.text[i] = "done" /\ \A j \in 1..Len(l.text) : j # i => l.text[j] = " "

\* the line holds a reference
LinkLine(l) == l.ok /\ MatchAt(l.text) # {}

\* where reading ends: the first `done` line, or the end of the stream
StopIdx ==
    IF \E i \in 1..Len(input) : DoneLine(input[i])
    THEN CHOOSE i \in 1..Len(input) :
            DoneLine(input[i]) /\ \A j \in 1..(i - 1) : ~DoneLine(input[j])
    ELSE Len(input) + 1

\* C10: reading stops at the first line that is `done` after trimming, or at the
\* end of the stream: nothing on that line or after it is expanded; the lines
\* before it that hold a reference are expanded, each once and in order, and a
\* line that holds none changes neither the WorkList nor the outcome.
C10_ReadingStopsAtDone ==
    /\ lineNo <= StopIdx
    /\ pc \notin {"read", "panic"} => lineNo = StopIdx
    /\ fatal \in {"bad id", "expand playlist", "expand album", "expand show"}
          => (lineNo < StopIdx /\ LinkLine(input[lineNo]) /\ outcomes = <<>>)
    /\ \A k \in 1..Len(expanded) :
          /\ expanded[k].line < StopIdx
          /\ LinkLine(input[expanded[k].line])
          /\ k > 1 => expanded[k - 1].line < expanded[k].line
          /\ expanded[k].before = IF k = 1 THEN <<>> ELSE After(k - 1)
    /\ {expanded[k].line : k \in 1..Len(expanded)}
          = {i \in 1..(lineNo - 1) : LinkLine(input[i])}
    /\ (expanded = <<>>) => (ids = <<>>)

\* the first line is ` done `, the second holds a reference: main returned
\* with an empty WorkList
C10_Witness ==
    /\ Len(input) = 2
    /\ input[1].text = <<" ", "done", " ">>
    /\ LinkLine(input[2])
    /\ pc = "done" /\ ids = <<>> /\ expanded = <<>>

\* the same operation on the same id appears once in the steps of an item
NoRepeat(h) ==
    \A i, j \in 1..Len(h) : (h[i].op = h[j].op /\ h[i].id = h[j].id) => i = j

\* C11: a fatal error ends the run at once: no action is possible afterwards, the
\* failed operation is the last one performed and was performed once, no step
\* exists for a later item, and the file written for every item delivered
\* before is on disk with the bytes that were written.
C11_FatalTerminates ==
    /\ fatal # "" =>
          /\ pc = "panic"
          /\ ~ENABLED Next
          /\ Len(outcomes) = n - 1
          /\ \A e \in Range(steps) : e.item = n
          /\ \A i \in 1..Len(steps) : Failed(steps[i]) => i = Len(steps)
          /\ NoRepeat(steps)
          /\ wpc = "idle"
    /\ \A o \in Range(outcomes) :
          /\ NoRepeat(o.steps)
          /\ (o.result = "delivered" /\ argc = 3) =>
                \E e \in disk : e.name = o.name /\ e.data = Drop(o.decrypted, HeaderLen)
    /\ initDisk \subseteq disk
    /\ \A e, f \in disk : e.name = f.name => e = f

\* file mode: the first item was delivered, the key request of the second
\* failed, and a third item was never touched
C11_Witness ==
    /\ argc = 3 /\ pc = "panic" /\ fatal = "audio key"
    /\ n = 2 /\ Len(ids) = 3
    /\ outcomes[1].result = "delivered"
    /\ \E e \in disk : e.name = outcomes[1].name /\ e \notin initDisk

\* the catalog answers the second invocation as it answered the first: every
\* container returns the list it returned before
SameAnswers ==
    \A k \in 1..Len(expanded) :
        k <= Len(first.expanded) /\ expanded[k] = first.expanded[k]

\* C12: file mode, first invocation ended with every item delivered, same input
\* and same catalog answers: the second invocation writes nothing, reads and
\* decrypts no stream, leaves the disk as it found it, and every item whose
\* catalog calls succeed ends as skipped because its file exists.
C12_RerunIdempotent ==
    (run = "second" /\ argc = 3 /\ first.complete /\ SameAnswers) =>
        /\ disk = initDisk
        /\ \A h \in Histories : Ops(h.steps) \cap {"read", "decrypt", "write"} = {}
        /\ pc \notin {"poll", "turn", "expect", "decrypt", "write"}
        /\ wpc = "idle" /\ buffer = <<>> /\ decrypted_buffer = <<>>
        /\ \A o \in Range(outcomes) :
              /\ o.result \in {"exists", "skipped"}
              /\ (\A e \in Range(o.steps) : ~Failed(e)) => o.result = "exists"
              /\ o.result = "exists" => \E e \in initDisk : e.name = o.name
        /\ fatal \notin {"read", "decrypt", "slice", "write"}
        /\ pc = "done" =>
              /\ Len(expanded) = Len(first.expanded)
              /\ Len(outcomes) = Len(ids)

\* the first invocation delivered two tracks, the second one found both files
\* and returned
C12_Witness ==
    /\ run = "second" /\ argc = 3 /\ first.complete /\ SameAnswers
    /\ pc = "done" /\ Len(outcomes) = 2
    /\ \A i \in 1..2 : outcomes[i].result = "exists"
    /\ Cardinality(disk \ OldFiles) = 2

\* the name a track's file gets when the metadata in use is that of `used`
ExpectedTrackName(used) ==
    Sanitize(FormatName(
        Join([i \in 1..Len(TrackArtists[used]) |-> ArtistName[TrackArtists[used][i]]], ", "),
        TrackName[used]))

\* the steps of an item after its metadata (own or substituted) was settled use
\* the id, the files, the artists and the name of the metadata in use
UsesSubstitute(h, used) ==
    /\ \A e \in Range(h) : e.op \in {"format", "key", "open", "read", "decrypt"} => e.id = used
    /\ \A i \in 1..Len(OfOp(h, "artist")) : OfOp(h, "artist")[i].id = TrackArtists[used][i]
    /\ \A e \in Range(h) : e.op = "album" => e.id = TrackAlbum[used]

\* C13 as stated: once an alternative has been substituted, every later step
\* of the item uses the alternative: format, key, artists, output name, and the
\* id handed to the helper as its first argument.
C13_AlternativeUsedEverywhere ==
    /\ \A o \in Range(outcomes) :
          (o.kind = "track" /\ o.used # 0) =>
             /\ UsesSubstitute(o.steps, o.used)
             /\ o.name # <<>> => o.name = ExpectedTrackName(o.used)
    /\ (pc \notin {"read", "next", "done"} /\ track.kind = "track")
          => UsesSubstitute(steps, track.id)
    /\ \A c \in Range(helperCalls) :
          c.kind = "track" => c.args[1] = ToBase62(c.used)
    /\ (pc \in {"pipe", "wait"} /\ track.kind = "track")
          => child.args[1] = ToBase62(track.id)

\* C13 without the helper's first argument (what the code does keep)
C13_AlternativeUsedButForHelperId ==
    /\ \A o \in Range(outcomes) :
          (o.kind = "track" /\ o.used # 0) =>
             /\ UsesSubstitute(o.steps, o.used)
             /\ o.name # <<>> => o.name = ExpectedTrackName(o.used)
    /\ (pc \notin {"read", "next", "done"} /\ track.kind = "track")
          => UsesSubstitute(steps, track.id)
    /\ \A c \in Range(helperCalls) :
          c.kind = "track" => c.args[1] = ToBase62(ids[c.item].key)

\* what the worker's job and the main thread share: the buffer, the result of
\* the read, and the flag
Shared == <<buffer, read_all>>

\* the main thread's own state while it polls
MainOwned == <<lineNo, expanded, ids, n, outcomes, track, altIdx, artists_strs, show,
               album, file_id, key, fname, decrypted_buffer, child, helperCalls,
               disk, fatal>>

InFlight == wpc # "idle"

\* the states of the bridge
BridgeStates ==
    /\ InFlight => (pc \in {"poll", "turn"} /\ ~fetched)
    /\ wpc = "queued" => (buffer = <<>> /\ read_all = "unset")
    /\ wpc = "read" => read_all \in {"ok", "err"}
    /\ fetched => (wpc = "idle" /\ read_all \in {"ok", "err"})
    /\ pc \in {"expect", "decrypt", "write", "album", "spawn", "pipe", "wait"}
          => (fetched /\ wpc = "idle")
    /\ (pc = "panic" /\ fatal \in {"read", "decrypt"}) => (fetched /\ wpc = "idle")

\* the steps of the bridge
BridgeSteps ==
    /\ (InFlight /\ Shared' # Shared)
          => (wpc = "queued" /\ wpc' = "read" /\ pc' = pc /\ fetched' = fetched)
    /\ (fetched' # fetched /\ fetched')
          => (wpc = "read" /\ wpc' = "idle" /\ Shared' = Shared /\ pc' = pc)
    /\ (InFlight /\ pc' # pc)
          => (Shared' = Shared /\ fetched' = fetched /\ wpc' = wpc
              /\ pc' \in {"poll", "turn"})
    /\ InFlight => MainOwned' = MainOwned
    /\ (fetched /\ pc \in {"poll", "turn", "expect", "decrypt"}
           /\ pc' \notin {"next", "panic"})
          => (Shared' = Shared /\ wpc' = "idle")

\* C14: the main thread uses the buffer and the result of the read only after it
\* has seen the flag set; the worker sets the flag after its last access to
\* them and touches nothing afterwards; while the read is in flight the main
\* thread touches neither of them, and the flag is all that both sides touch.
C14_BufferOwnership == []BridgeStates /\ [][BridgeSteps]_vars

\* the worker has filled the buffer and not yet set the flag; the main thread
\* has found the flag unset and is ticking the scheduler
C14_Witness ==
    /\ pc = "turn" /\ wpc = "read" /\ ~fetched
    /\ read_all = "ok" /\ buffer # <<>>

\* the polling loop neither blocks nor ends early: while it runs the main thread
\* always has a step, an unset flag sends it to core.turn, and it leaves for
\* read_all.expect only on a set flag
PollingSteps ==
    /\ (pc = "poll" /\ ~fetched /\ pc' # pc) => pc' = "turn"
    /\ (pc = "turn" /\ pc' # pc) => pc' = "poll"
    /\ (pc \in {"poll", "turn"} /\ pc' \notin {"poll", "turn"})
          => (pc = "poll" /\ fetched /\ wpc = "idle" /\ pc' = "expect")

\* C15: while the flag is unset the main thread keeps ticking and never blocks;
\* once the worker's read has returned the flag is eventually set, the loop is
\* left, and the item goes on to decryption after a good read and to the
\* panic after a failed one; the loop is never left while the read is in
\* progress.
C15_BridgeLiveness ==
    /\ [](pc \in {"poll", "turn"} => ENABLED (PollCheck \/ PollTurn))
    /\ [][PollingSteps]_vars
    /\ (wpc = "read") ~> fetched
    /\ (wpc = "read" /\ read_all = "ok") ~> (pc = "decrypt")
    /\ (wpc = "read" /\ read_all = "err") ~> (pc = "panic" /\ fatal = "read")

\* the read has failed, the flag is not set yet, and the main thread is ticking
C15_Witness ==
    /\ pc = "turn" /\ wpc = "read" /\ ~fetched
    /\ read_all = "err"

\* the output name the item in progress derives
DerivedName == IF track.kind = "track" THEN TrackFname ELSE EpisodeFname

\* the position of the first step of this kind in h (0: none)
FirstOf(h, op) ==
    IF \E i \in 1..Len(h) : h[i].op = op
    THEN CHOOSE i \in 1..Len(h) : h[i].op = op /\ \A j \in 1..(i - 1) : h[j].op # op
    ELSE 0

CheckAfterOpen ==
    \A h \in Histories :
        FirstOf(h.steps, "exists") # 0 =>
           /\ 0 < FirstOf(h.steps, "format")
           /\ FirstOf(h.steps, "format") < FirstOf(h.steps, "key")
           /\ FirstOf(h.steps, "key") < FirstOf(h.steps, "open")
           /\ FirstOf(h.steps, "open") < FirstOf(h.steps, "exists")
           /\ \A i \in 1..(FirstOf(h.steps, "exists") - 1) : h.steps[i].res # "err"

\* the existence check of an item whose file exists ends the item as skipped and
\* moves the loop to the next item
SkipsWhenExists ==
    (pc = "exists" /\ Exists(DerivedName)) =>
        /\ pc' = "next" /\ n' = n + 1 /\ fatal' = "" /\ disk' = disk
        /\ Len(outcomes') = Len(outcomes) + 1
        /\ outcomes'[n].result = "exists" /\ outcomes'[n].name = DerivedName

OriginOf(k) ==
    LET from == {i \in 1..Len(expanded) : k \in Range(Keys(expanded[i].inserted))}
        last == CHOOSE i \in from : \A j \in from : j <= i
    IN  expanded[last].kind

\* C17 as stated: delivery fetches no show for an episode that a show expansion
\* inserted, and no album for a track that an album expansion inserted; only
\* items of unknown context (bare references, playlist tracks) get a grouping
\* fetch.
C17_NoGroupingRefetch ==
    \A h \in Histories :
        /\ (h.kind = "episode" /\ OriginOf(h.id) = "show") => "show" \notin Ops(h.steps)
        /\ (h.kind = "track" /\ OriginOf(h.id) = "album") => "album" \notin Ops(h.steps)

\* what the code does: every episode that gets past its own metadata fetch has
\* its show fetched next, and every track handed to the helper has its album
\* fetched, wherever the item came from
C17_GroupingAlwaysFetched ==
    \A h \in Histories :
        /\ (h.kind = "episode" /\ Len(h.steps) >= 2) => h.steps[2].op = "show"
        /\ (h.kind = "track" /\ "spawn" \in Ops(h.steps)) => "album" \in Ops(h.steps)
        /\ \A i \in 1..Len(ids) : ids[i].value \in {"track", "episode"}

AllUnavailable(id) ==
    \A i \in 1..Len(TrackAlternatives[id]) : TrackAlternatives[id][i] \notin avail

\* C18: an unavailable track none of whose alternatives is available (or with
\* no alternatives) ends the run: nothing but its metadata and its
\* alternatives is ever fetched for it, it has no outcome, and no later item is
\* touched; a failed fetch of an alternative ends the run too.  An episode is
\* never substituted and its unavailability never ends the run: it goes on with
\* its own show and its own files.
C18_NoAlternativeAborts ==
    /\ \A h \in Histories :
          (h.kind = "track" /\ h.id \notin avail /\ h.steps[1].res = "ok"
             /\ AllUnavailable(h.id)) =>
                /\ ~h.finished
                /\ Ops(h.steps) \subseteq {"get", "alt"}
                /\ \/ pc = "alt"
                   \/ pc = "panic" /\ fatal \in {"no alternative", "alternative fetch"}
    /\ fatal = "no alternative" =>
          /\ n <= Len(ids) /\ ids[n].value = "track"
          /\ ids[n].key \notin avail /\ AllUnavailable(ids[n].key)
          /\ Aborted
          /\ Len(outcomes) = n - 1
          /\ \A c \in Range(helperCalls) : c.item < n
    /\ \A i \in 1..Len(steps) :
          (steps[i].op = "alt" /\ steps[i].res = "err") =>
             (i = Len(steps) /\ Aborted /\ fatal = "alternative fetch")
    /\ fatal \in {"no alternative", "alternative fetch"} => track.kind = "track"
    /\ \A h \in Histories :
          h.kind = "episode" =>
             /\ "alt" \notin Ops(h.steps)
             /\ \A e \in Range(h.steps) :
                   e.op \in {"format", "key", "open", "read", "decrypt"} => e.id = h.id
             /\ (h.steps[1].res = "ok" /\ Len(h.steps) >= 2) => h.steps[2].op = "show"
    /\ track.kind = "episode" =>
          (track.id = ids[n].key /\ track.files = EpisodeFiles[track.id])

\* episode 1, unavailable, was processed with its own files up to its terminal
\* state; then track 3, unavailable, had its only alternative fetched and found
\* unavailable: the run ended with a third item untouched
C18_Witness ==
    /\ pc = "panic" /\ fatal = "no alternative"
    /\ n = 2 /\ Len(ids) = 3 /\ ids[2].key = 3
    /\ Len(OfOp(steps, "alt")) = 1
    /\ outcomes[1].kind = "episode" /\ outcomes[1].id \notin EpisodeAvailable
    /\ "open" \in Ops(outcomes[1].steps)

\* input reading has ended: stdin is exhausted or the line at hand is `done`
ReadingEnded ==
    \/ lineNo > Len(input)
    \/ input[lineNo].ok /\ IsDone(input[lineNo].text)

\* nothing of the delivery loop has happened
NothingDelivered ==
    /\ n = 1 /\ outcomes = <<>> /\ steps = <<>> /\ helperCalls = <<>>
    /\ track = NoMeta /\ child = NoChild /\ wpc = "idle"
    /\ disk = initDisk

ReadPanics == {"bad id", "expand playlist", "expand album", "expand show"}

\* C19: while input is being read nothing of the delivery loop happens; the
\* delivery loop runs only after reading has ended and then the WorkList no
\* longer changes; a run ended by a failed container fetch has delivered
\* nothing, whatever the WorkList already held.
C19_ExpansionBeforeDelivery ==
    /\ [](pc = "read" => NothingDelivered)
    /\ [](fatal \in ReadPanics => (NothingDelivered /\ ~ENABLED Next))
    /\ [](pc \notin {"read", "panic"} => ReadingEnded)
    /\ []((pc = "panic" /\ fatal \notin ReadPanics) => ReadingEnded)
    /\ [][pc # "read" => (pc' # "read" /\ ids' = ids /\ lineNo' = lineNo
                           /\ expanded' = expanded)]_vars

\* an episode reference was read first, then the fetch of an album failed: the
\* run ended with the episode in the WorkList and nothing done for it
C19_Witness ==
    /\ pc = "panic" /\ fatal = "expand album"
    /\ lineNo = 2
    /\ ids = <<[key |-> 1, value |-> "episode"]>>
    /\ NothingDelivered

\* the names written by the run so far, one entry per successful write
Written ==
    SelectSeq([i \in 1..Len(outcomes) |->
                  IF \E e \in Range(outcomes[i].steps) : e.op = "write" /\ e.res = "ok"
                  THEN outcomes[i].name ELSE <<>>],
              LAMBDA w : w # <<>>)

\* a step that changes the disk is a write, in file mode, of a name that the
\* check just before it found absent, and it adds that one file
WritesOnlyAbsent ==
    disk' # disk =>
        /\ pc = "write" /\ argc = 3
        /\ ~Exists(DerivedName)
        /\ \E e \in disk' : e.name = DerivedName /\ disk' = disk \cup {e}
        /\ steps # <<>> /\ outcomes'[n].steps[Len(steps) + 1].op = "recheck"
        /\ outcomes'[n].steps[Len(steps) + 1].res = "no"
        /\ outcomes'[n].steps[Len(steps) + 2].op = "write"

\* C20: a file is written only under a name that the check right before the
\* write found absent: each name is written at most once in a run, a later
\* item deriving a name already written is skipped, and every file that was
\* there before the run stays as it was.
C20_NeverOverwrites ==
    /\ [][WritesOnlyAbsent]_vars
    /\ [](initDisk \subseteq disk)
    /\ [](\A e, f \in disk : e.name = f.name => e = f)
    /\ [](\A i, j \in 1..Len(Written) : Written[i] = Written[j] => i = j)
    /\ [](Cardinality(disk) = Cardinality(initDisk) + Len(Written))
    /\ [](\A i, j \in 1..Len(outcomes) :
             (i < j /\ argc = 3 /\ outcomes[i].result = "delivered"
                /\ "open" \in Ops(outcomes[j].steps)
                /\ outcomes[j].name = outcomes[i].name)
                   => outcomes[j].result = "exists")
    /\ [](\A h \in Histories :
             \A i \in 1..Len(h.steps) :
                h.steps[i].op = "write" =>
                   (i > 1 /\ h.steps[i - 1].op = "recheck" /\ h.steps[i - 1].res = "no"))

\* track 1 was delivered under the metadata of its alternative, track 2; track
\* 2 itself came next, derived the same name and was skipped: one file written
C20_Witness ==
    /\ argc = 3 /\ Len(outcomes) = 2
    /\ outcomes[1].result = "delivered" /\ outcomes[2].result = "exists"
    /\ outcomes[1].name = outcomes[2].name
    /\ Len(Written) = 1
    /\ Cardinality(disk) = Cardinality(initDisk) + 1

====
